---- MODULE Spec2Model ----
(***************************************************************************)
(* gold_digger: the normalisation and upsert pipeline of src/database.py   *)
(* (MySQLClient) and the orchestration of src/services.py, as a state      *)
(* machine over the contents of the MySQL tables.                          *)
(*                                                                         *)
(* Names (dict keys, DataFrame columns, table columns) are sequences of    *)
(* symbols, so that str.replace is modelled as substring replacement.  A   *)
(* symbol is one character ("A") or an indivisible run of characters       *)
(* ("long", "Name").  Values are strings; None is Python's None, which     *)
(* the driver binds as SQL NULL, NaN is pandas' missing cell.              *)
(*                                                                         *)
(* Storage is MySQL as the handlers use it: a table is a set of rows over  *)
(* its live column set, a statement naming an unknown column or table is   *)
(* rejected, a natural-key column takes no NULL, and what a connection     *)
(* executed and did not commit is rolled back when the connection closes.  *)
(***************************************************************************)
EXTENDS Integers, Sequences, FiniteSets, TLC

VARIABLES
    group,      \* the command group of main.py this run of the CLI exercises
    schema,     \* table name -> live column set ({}: the table does not exist)
    tables,     \* table name -> set of rows, each a function on schema[table]
    priceLog,   \* history: (date, ticker) -> OHLC of the last save that returned
    last,       \* what the last call did: op, outcome, statements submitted ...
    run,        \* the multi-ticker operation of services.py under way, if any
    today       \* the calendar date, datetime.now().date()

vars == <<group, schema, tables, priceLog, last, run, today>>

(* ------------------------------ bounds -------------------------------- *)
MaxRows == 2        \* rows of a DataFrame handed to a save call
MaxLen == 3         \* symbols of a name handed to the field mapper alone
MaxTickers == 2     \* tickers of a multi-ticker operation

(* ------------------------------ values -------------------------------- *)
None == "None"
NaN == "NaN"

Name(s) == <<s>>

RECURSIVE SeqsUpTo(_, _)
SeqsUpTo(S, n) ==
    IF n = 0 THEN {<<>>}
    ELSE LET shorter == SeqsUpTo(S, n - 1)
         IN shorter \cup {Append(q, x) : q \in {p \in shorter : Len(p) = n - 1}, x \in S}

(* --------------------------- field mapper ----------------------------- *)
\* str.startswith
StartsWith(s, old) == Len(s) >= Len(old) /\ SubSeq(s, 1, Len(old)) = old

\* "abc".replace("", "-") = "-a-b-c-"
RECURSIVE Interleave(_, _)
Interleave(s, new) ==
    IF s = <<>> THEN new ELSE new \o <<Head(s)>> \o Interleave(Tail(s), new)

\* str.replace(old, new): every non-overlapping occurrence, left to right
RECURSIVE Replace(_, _, _)
Replace(s, old, new) ==
    IF old = <<>> THEN Interleave(s, new)
    ELSE IF s = <<>> THEN <<>>
    ELSE IF StartsWith(s, old)
         THEN new \o Replace(SubSeq(s, Len(old) + 1, Len(s)), old, new)
         ELSE <<Head(s)>> \o Replace(Tail(s), old, new)

\* A mapper that stops at the first pair that changes the name.
RECURSIVE MapFieldFirstMatch(_, _)
MapFieldFirstMatch(key, mapping) ==
    IF mapping = <<>> THEN key
    ELSE LET out == Replace(key, Head(mapping)[1], Head(mapping)[2])
         IN IF out # key THEN out ELSE MapFieldFirstMatch(key, Tail(mapping))

\* db_key = key; for camel_case, snake_case in MAPPING.items():
\*     db_key = db_key.replace(camel_case, snake_case)
\* mapping is the dict's items in insertion order.
RECURSIVE MapField(_, _)
MapField(key, mapping) ==
    IF mapping = <<>> THEN key
    ELSE MapField(Replace(key, Head(mapping)[1], Head(mapping)[2]), Tail(mapping))

(* ------------------------------ storage ------------------------------- *)
Tables == {"companies", "stock_prices", "put_options", "call_options", "no_such_table"}

C_symbol == Name("symbol")
C_date == Name("date")
C_ticker == Name("ticker")
C_open == Name("open")
C_high == Name("high")
C_low == Name("low")
C_close == Name("close")
C_volume == Name("volume")
C_contract_symbol == <<"contract", "_", "symbol">>
C_created_at == Name("created_at")
C_expiration_date == Name("expiration_date")

\* The columns a table's rows are identified by: "symbol (which is the key)",
\* "date and ticker (which form the unique key)", "contract_symbol and
\* created_at (which form the unique key)".
KeyColumns(t) ==
    CASE t = "companies" -> {C_symbol}
      [] t = "stock_prices" -> {C_date, C_ticker}
      [] OTHER -> {C_contract_symbol, C_created_at}

\* The storage fault a call meets, if any: the connection of the upsert cannot
\* be opened, execute fails at a row of the batch, commit fails, or the
\* DESCRIBE of the schema check fails.
NoFault == [kind |-> "none", row |-> 0]

WriteFaults(n) ==
    {NoFault, [kind |-> "connect", row |-> 0], [kind |-> "commit", row |-> 0]}
    \cup {[kind |-> "execute", row |-> k] : k \in 1..n}

Faults(n) == WriteFaults(n) \cup {[kind |-> "describe", row |-> 0]}

\* A block that releases its connection at its end only.
ScopedNoReleaseOnError(opened, failed) ==
    IF ~opened THEN <<>> ELSE IF failed THEN <<"acquire">> ELSE <<"acquire", "release">>

\* with self.engine.connect() as connection: the connection is acquired on
\* entry and released when the block is left, by its end, a return or an
\* exception; nothing is acquired when connect() itself fails.
Scoped(opened, failed) == IF opened THEN <<"acquire", "release">> ELSE <<>>

\* DESCRIBE table: the live column set; an error if the table does not exist
\* or the storage fails.
Describe(sch, t, fault) ==
    IF fault.kind = "describe" THEN [err |-> "OperationalError", columns |-> {}]
    ELSE IF sch[t] = {} THEN [err |-> "ProgrammingError", columns |-> {}]
    ELSE [err |-> "none", columns |-> sch[t]]

\* A schema check that remembers the columns the table was created with.
GetTableColumnsCached(sch, t, fault) ==
    CASE t = "stock_prices" ->
            {C_date, C_ticker, C_open, C_high, C_low, C_close}
      [] OTHER -> Describe(sch, t, fault).columns

\* try: with self.engine.connect() as connection:
\*          return {row[0] for row in connection.execute(DESCRIBE table)}
\* except Exception: logger.error(...); return set()
GetTableColumns(sch, t, fault) ==
    LET d == Describe(sch, t, fault)
    IN IF d.err # "none" THEN {} ELSE d.columns

\* The connection of the schema check.
SchemaCheckConnection(sch, t, fault) == Scoped(TRUE, Describe(sch, t, fault).err # "none")

\* What MySQL rejects of the statement text before any row: an unknown table,
\* an unknown column, an empty ON DUPLICATE KEY UPDATE clause.
StatementError(sch, stmt) ==
    IF sch[stmt.table] = {} THEN "ProgrammingError"
    ELSE IF stmt.update = {} THEN "ProgrammingError"
    ELSE IF stmt.columns \ sch[stmt.table] # {} THEN "OperationalError"
    ELSE "none"

\* A row is refused when a bound parameter is missing or a key column is
\* not given a value.
RowError(stmt, rec) ==
    \/ stmt.columns \ DOMAIN rec # {}
    \/ \E k \in KeyColumns(stmt.table) : k \notin stmt.columns \/ rec[k] = None

SameKey(t, r, rec) == \A k \in KeyColumns(t) : r[k] = rec[k]

\* INSERT INTO t (columns) VALUES (...) ON DUPLICATE KEY UPDATE c = VALUES(c)
\* for one row: insert, or overwrite the update-clause columns of the row
\* with the same key.
UpsertRow(rows, cols, stmt, rec) ==
    LET hit == {r \in rows : SameKey(stmt.table, r, rec)}
    IN IF hit = {}
       THEN rows \cup {[c \in cols |-> IF c \in stmt.columns THEN rec[c] ELSE None]}
       ELSE (rows \ hit)
            \cup {[c \in cols |-> IF c \in stmt.update THEN rec[c] ELSE r[c]] : r \in hit}

\* connection.execute(query, records): the rows in order, inside the
\* connection's transaction, up to the first one that fails.
RECURSIVE ExecRows(_, _, _, _, _)
ExecRows(rows, cols, stmt, i, fault) ==
    IF i > Len(stmt.params) THEN [err |-> "none", rows |-> rows, executed |-> i - 1]
    ELSE IF fault.kind = "execute" /\ fault.row = i
         THEN [err |-> "OperationalError", rows |-> rows, executed |-> i - 1]
    ELSE IF RowError(stmt, stmt.params[i])
         THEN [err |-> "IntegrityError", rows |-> rows, executed |-> i - 1]
    ELSE ExecRows(UpsertRow(rows, cols, stmt, stmt.params[i]), cols, stmt, i + 1, fault)

Execute(db, sch, stmt, fault) ==
    IF StatementError(sch, stmt) # "none"
    THEN [err |-> StatementError(sch, stmt), rows |-> db[stmt.table], executed |-> 0]
    ELSE ExecRows(db[stmt.table], sch[stmt.table], stmt, 1, fault)

\* The end of the block on an autocommit connection: the rows executed
\* before a failure stay.
SettleAutocommit(db, stmt, fault, x) ==
    [outcome |-> IF x.err # "none" \/ fault.kind = "commit" THEN "raised" ELSE "returned",
     error |-> IF x.err # "none" THEN x.err
               ELSE IF fault.kind = "commit" THEN "OperationalError" ELSE "none",
     db |-> [db EXCEPT ![stmt.table] = x.rows],
     submitted |-> <<stmt>>, executed |-> x.executed,
     storage |-> IF x.err # "none" THEN x.err
                 ELSE IF fault.kind = "commit" THEN "OperationalError" ELSE "none",
     conns |-> Scoped(TRUE, x.err # "none" \/ fault.kind = "commit")]

\* An except clause that logs the error and does not raise it again.
SettleSwallow(db, stmt, fault, x) ==
    [outcome |-> "returned", error |-> "none",
     db |-> IF x.err # "none" \/ fault.kind = "commit" THEN db
            ELSE [db EXCEPT ![stmt.table] = x.rows],
     submitted |-> <<stmt>>, executed |-> x.executed,
     storage |-> IF x.err # "none" THEN x.err
                 ELSE IF fault.kind = "commit" THEN "OperationalError" ELSE "none",
     conns |-> Scoped(TRUE, x.err # "none" \/ fault.kind = "commit")]

\* connection.commit() after the execute, or the exception that leaves the
\* with block: the connection closes without commit and what it executed is
\* rolled back; the except clause logs and raises again.
Settle(db, stmt, fault, x) ==
    IF x.err # "none"
    THEN [outcome |-> "raised", error |-> x.err, db |-> db,
          submitted |-> <<stmt>>, executed |-> x.executed,
          storage |-> x.err, conns |-> Scoped(TRUE, TRUE)]
    ELSE IF fault.kind = "commit"
    THEN [outcome |-> "raised", error |-> "OperationalError", db |-> db,
          submitted |-> <<stmt>>, executed |-> x.executed,
          storage |-> "OperationalError", conns |-> Scoped(TRUE, TRUE)]
    ELSE [outcome |-> "returned", error |-> "none",
          db |-> [db EXCEPT ![stmt.table] = x.rows],
          submitted |-> <<stmt>>, executed |-> x.executed,
          storage |-> "none", conns |-> Scoped(TRUE, FALSE)]

\* try:
\*     with self.engine.connect() as connection:
\*         connection.execute(query, records); connection.commit()
\* except Exception as e: logger.error(...); raise
ExecuteAndCommit(db, sch, stmt, fault) ==
    IF fault.kind = "connect"
    THEN [outcome |-> "raised", error |-> "OperationalError", db |-> db,
          submitted |-> <<>>, executed |-> 0,
          storage |-> "OperationalError", conns |-> Scoped(FALSE, TRUE)]
    ELSE Settle(db, stmt, fault, Execute(db, sch, stmt, fault))

\* What a save call did: how it ended, the columns its schema check
\* returned, the records it built, the statements it submitted, the tables,
\* the error the storage layer raised in the upsert, the connections used
\* (checked: those of the schema check), the columns an error message names.
Result(x, db_columns, described, records, checked) ==
    [outcome |-> x.outcome, error |-> x.error, detail |-> "storage", db |-> x.db,
     dbColumns |-> db_columns, described |-> described, records |-> records,
     submitted |-> x.submitted, executed |-> x.executed,
     storage |-> x.storage, conns |-> checked \o x.conns, missing |-> {}]

Raised(db, error, detail) ==
    [outcome |-> "raised", error |-> error, detail |-> detail, db |-> db,
     dbColumns |-> {}, described |-> FALSE, records |-> <<>>, submitted |-> <<>>,
     executed |-> 0, storage |-> "none", conns |-> <<>>, missing |-> {}]

(* --------------------------- price variant ---------------------------- *)
Tickers == {"AAA"}

PriceColumns == {C_date, C_ticker, C_open, C_high, C_low, C_close}

RequiredPriceColumns == {"Open", "High", "Low", "Close"}

\* The bars the provider's table rows are drawn from: two bars of the first
\* day that differ in open and close, one bar of the second day.
Bars ==
    {[day |-> "2024-01-02", Open |-> "1.0", High |-> "2.0", Low |-> "0.5",
      Close |-> "1.5", Volume |-> "100"],
     [day |-> "2024-01-02", Open |-> NaN, High |-> "2.0", Low |-> "0.5",
      Close |-> "1.8", Volume |-> "100"],
     [day |-> "2024-01-03", Open |-> "1.0", High |-> "2.0", Low |-> "0.5",
      Close |-> "1.5", Volume |-> "100"]}

\* Column sets of tables that are one row long: with Volume, lacking Low and
\* Close, without columns.
OtherPriceColumnSets ==
    {{"Open", "High", "Low", "Close", "Volume"}, {"Open", "High"}, {}}

\* A row of the provider's table: a Timestamp index and one cell per column.
PriceRows(cs) ==
    {[index |-> [type |-> "Timestamp", day |-> b.day], cells |-> [c \in cs |-> b[c]]] :
        b \in Bars}

NoFrame == [isNone |-> TRUE, columns |-> {}, rows |-> <<>>]

PriceFrames ==
    {NoFrame}
    \cup {[isNone |-> FALSE, columns |-> RequiredPriceColumns, rows |-> rs] :
            rs \in SeqsUpTo(PriceRows(RequiredPriceColumns), MaxRows)}
    \cup UNION {{[isNone |-> FALSE, columns |-> cs, rows |-> <<r>>] :
                    r \in PriceRows(cs)} : cs \in OtherPriceColumnSets}

\* DataFrame.empty: an axis of length 0
Empty(df) == df.columns = {} \/ df.rows = <<>>

\* A replacement of NaN by zero.
FloatOrZero(v) == IF v # NaN THEN v ELSE "0.0"

\* float(row[c]) if pd.notna(row[c]) else None, on a float64 cell
FloatOrNone(v) == IF v # NaN THEN v ELSE None

\* date = index.to_pydatetime(): the Timestamp's datetime, of which the date
\* column keeps the day.
RowDate(index) == index.day

PriceRecord(row, ticker) ==
    (C_date :> RowDate(row.index)) @@ (C_ticker :> ticker)
    @@ (C_open :> FloatOrNone(row.cells["Open"]))
    @@ (C_high :> FloatOrNone(row.cells["High"]))
    @@ (C_low :> FloatOrNone(row.cells["Low"]))
    @@ (C_close :> FloatOrNone(row.cells["Close"]))

\* An update clause that leaves the close out.
PriceStatementNoClose(records) ==
    [table |-> "stock_prices", columns |-> PriceColumns,
     update |-> PriceColumns \ {C_date, C_ticker, C_close}, params |-> records]

\* columns = ["date", "ticker", "open", "high", "low", "close"]; the update
\* clause is every column but date and ticker.
PriceStatement(records) ==
    [table |-> "stock_prices", columns |-> PriceColumns,
     update |-> PriceColumns \ {C_date, C_ticker}, params |-> records]

SavePriceRecords(db, sch, records, fault) ==
    Result(ExecuteAndCommit(db, sch, PriceStatement(records), fault), {}, FALSE, records,
           <<>>)

SavePriceDataUpsert(db, sch, price_data, ticker, fault) ==
    IF price_data.isNone \/ Empty(price_data)
    THEN Raised(db, "ValueError", "empty")
    ELSE IF RequiredPriceColumns \ price_data.columns # {}
    THEN [Raised(db, "ValueError", "missing columns") EXCEPT
            !.missing = RequiredPriceColumns \ price_data.columns]
    ELSE SavePriceRecords(db, sch,
            [i \in 1..Len(price_data.rows) |-> PriceRecord(price_data.rows[i], ticker)],
            fault)

(* -------------------------- company variant --------------------------- *)
K_symbol == Name("symbol")
K_longName == <<"long", "Name">>
K_marketCap == <<"market", "Cap">>
K_zip == Name("zip")
C_long_name == <<"long", "_", "name">>
C_market_cap == <<"market", "_", "cap">>

\* utils/mapping.py: camel-case substrings and their snake-case replacements
COMPANY_INFO_COLUMN_MAPPING_DICT ==
    <<<<K_longName, C_long_name>>, <<K_marketCap, C_market_cap>>>>

CompanyColumns == {C_symbol, C_long_name, C_market_cap}

Composites == {"dict", "list", "tuple", "set"}

\* isinstance(value, (dict, list, tuple, set))
IsComposite(v) == v \in Composites

\* The values a field of the provider's company record is drawn from.
CompanyValues(k) ==
    CASE k = K_symbol -> {None, "x", "y"}
      [] k = K_longName -> {None, "list", "x", "y"}
      [] k = K_marketCap -> {None, "5"}
      [] OTHER -> {"x"}

CompanyKeys == <<K_symbol, K_longName, K_zip, K_marketCap>>

\* A dict as its items in insertion order: the records over the first n keys.
RECURSIVE CompanyRecords(_)
CompanyRecords(n) ==
    IF n = 0 THEN {<<>>}
    ELSE LET shorter == CompanyRecords(n - 1)
         IN shorter
            \cup {Append(d, <<CompanyKeys[n], v>>) :
                    d \in shorter, v \in CompanyValues(CompanyKeys[n])}

\* A filter that keeps a field whether or not the table has its column.
RECURSIVE FilterCompanyNoSchema(_, _, _)
FilterCompanyNoSchema(items, db_columns, acc) ==
    IF items = <<>> THEN acc
    ELSE LET key == Head(items)[1]
             value == Head(items)[2]
             db_key == MapField(key, COMPANY_INFO_COLUMN_MAPPING_DICT)
         IN IF value # None /\ ~IsComposite(value)
            THEN FilterCompanyNoSchema(Tail(items), db_columns, (db_key :> value) @@ acc)
            ELSE FilterCompanyNoSchema(Tail(items), db_columns, acc)

\* A filter that skips no composite value.
RECURSIVE FilterCompanyKeepComposite(_, _, _)
FilterCompanyKeepComposite(items, db_columns, acc) ==
    IF items = <<>> THEN acc
    ELSE LET key == Head(items)[1]
             value == Head(items)[2]
             db_key == MapField(key, COMPANY_INFO_COLUMN_MAPPING_DICT)
         IN IF value # None /\ db_key \in db_columns
            THEN FilterCompanyKeepComposite(Tail(items), db_columns,
                                            (db_key :> value) @@ acc)
            ELSE FilterCompanyKeepComposite(Tail(items), db_columns, acc)

\* A filter that keeps the fields whose value is None.
RECURSIVE FilterCompanyKeepNull(_, _, _)
FilterCompanyKeepNull(items, db_columns, acc) ==
    IF items = <<>> THEN acc
    ELSE LET key == Head(items)[1]
             value == Head(items)[2]
             db_key == MapField(key, COMPANY_INFO_COLUMN_MAPPING_DICT)
         IN IF ~IsComposite(value) /\ db_key \in db_columns
            THEN FilterCompanyKeepNull(Tail(items), db_columns, (db_key :> value) @@ acc)
            ELSE FilterCompanyKeepNull(Tail(items), db_columns, acc)

\* for key, value in company_data.items(): skip None, skip composites, map
\* the key, keep it if the table has the column
RECURSIVE FilterCompany(_, _, _)
FilterCompany(items, db_columns, acc) ==
    IF items = <<>> THEN acc
    ELSE LET key == Head(items)[1]
             value == Head(items)[2]
             db_key == MapField(key, COMPANY_INFO_COLUMN_MAPPING_DICT)
         IN IF value # None /\ ~IsComposite(value) /\ db_key \in db_columns
            THEN FilterCompany(Tail(items), db_columns, (db_key :> value) @@ acc)
            ELSE FilterCompany(Tail(items), db_columns, acc)

NoRecord == [k \in {} |-> None]

\* columns = list(filtered_data.keys()); the update clause is every column
\* but symbol.
CompanyStatement(table_name, filtered_data) ==
    [table |-> table_name, columns |-> DOMAIN filtered_data,
     update |-> DOMAIN filtered_data \ {C_symbol}, params |-> <<filtered_data>>]

SaveCompanyFiltered(db, sch, table_name, db_columns, filtered_data, fault) ==
    IF DOMAIN filtered_data = {}
    THEN [Raised(db, "ValueError", "nothing to insert") EXCEPT
            !.dbColumns = db_columns, !.described = TRUE,
            !.conns = SchemaCheckConnection(sch, table_name, fault)]
    ELSE Result(ExecuteAndCommit(db, sch, CompanyStatement(table_name, filtered_data),
                                 fault),
                db_columns, TRUE, <<filtered_data>>,
                SchemaCheckConnection(sch, table_name, fault))

SaveCompanyWithColumns(db, sch, company_data, table_name, db_columns, fault) ==
    SaveCompanyFiltered(db, sch, table_name, db_columns,
                        FilterCompany(company_data, db_columns, NoRecord), fault)

SaveCompanyDataUpsert(db, sch, company_data, table_name, fault) ==
    IF company_data = <<>> THEN Raised(db, "ValueError", "empty")
    ELSE SaveCompanyWithColumns(db, sch, company_data, table_name,
                                GetTableColumns(sch, table_name, fault), fault)

(* --------------------------- option variant --------------------------- *)
K_contractSymbol == <<"contract", "Symbol">>
K_strike == Name("strike")
K_volume == Name("volume")
C_strike_price == <<"strike", "_", "price">>

\* utils/mapping.py: the option fields' table
OPTIONS_COLUMN_MAPPING_DICT ==
    <<<<K_contractSymbol, C_contract_symbol>>, <<K_strike, C_strike_price>>>>

OptionColumns == {C_contract_symbol, C_created_at, C_ticker, C_expiration_date, C_volume}

OptionFrameColumns == {K_contractSymbol, K_volume}

OptionCells(k) == IF k = K_contractSymbol THEN {NaN, "C1"} ELSE {NaN, "7.0", "9.0"}

OptionRows == {r \in [OptionFrameColumns -> {NaN, "C1", "7.0", "9.0"}] :
                    \A k \in OptionFrameColumns : r[k] \in OptionCells(k)}

OptionFrames ==
    {NoFrame}
    \cup {[isNone |-> FALSE, columns |-> OptionFrameColumns, rows |-> rs] :
            rs \in SeqsUpTo(OptionRows, MaxRows)}

\* pd.notna(value)
NotNa(v) == v # NaN /\ v # None

\* int(value) of a float64 cell
IntOf(v) == IF v = "7.0" THEN "7" ELSE IF v = "9.0" THEN "9" ELSE v

\* The coercion by field category: float, int, bool, str, or the value as is.
Coerce(db_key, v) ==
    IF db_key \in {C_volume, <<"open", "_", "interest">>} THEN IntOf(v) ELSE v

\* The field mapper's result for each column of a frame (it depends on the
\* column's name alone).
OptionKeys == [k \in OptionFrameColumns |-> MapField(k, OPTIONS_COLUMN_MAPPING_DICT)]

OptionKey(k) == OptionKeys[k]

\* A first pass that looks at the first row only.
AllFieldsFirstRow(options_data, db_columns) ==
    {OptionKey(k) : k \in {c \in options_data.columns :
                            NotNa(options_data.rows[1][c])}} \cap db_columns

\* First pass: the schema-valid fields some row has a value for.
AllFields(options_data, db_columns) ==
    {OptionKey(k) : k \in {c \in options_data.columns :
                            \E i \in 1..Len(options_data.rows) :
                                NotNa(options_data.rows[i][c])}} \cap db_columns

\* A second pass that stamps every record with one fixed date.
OptionRecordFixedDate(row, all_fields, db_columns, ticker, expiration_date, current_date) ==
    LET base == (C_ticker :> ticker) @@ (C_expiration_date :> expiration_date)
                @@ (C_created_at :> "2026-01-05")
        has == {k \in DOMAIN row : NotNa(row[k]) /\ OptionKey(k) \in db_columns}
        own == [f \in {OptionKey(k) : k \in has} |->
                    Coerce(f, row[CHOOSE k \in has : OptionKey(k) = f])]
        record == own @@ [f \in all_fields |-> None] @@ base
    IN [k \in DOMAIN record \cap db_columns |-> record[k]]

\* Second pass, one row: ticker, expiration_date and created_at, every field
\* of the first pass as None, the row's own values over them, and of all
\* that only what the table has a column for.
OptionRecord(row, all_fields, db_columns, ticker, expiration_date, current_date) ==
    LET base == (C_ticker :> ticker) @@ (C_expiration_date :> expiration_date)
                @@ (C_created_at :> current_date)
        has == {k \in DOMAIN row : NotNa(row[k]) /\ OptionKey(k) \in db_columns}
        own == [f \in {OptionKey(k) : k \in has} |->
                    Coerce(f, row[CHOOSE k \in has : OptionKey(k) = f])]
        record == own @@ [f \in all_fields |-> None] @@ base
    IN [k \in DOMAIN record \cap db_columns |-> record[k]]

\* columns = list(records_to_insert[0].keys()); the update clause is every
\* column but contract_symbol and created_at.
OptionStatement(table_name, records) ==
    [table |-> table_name, columns |-> DOMAIN records[1],
     update |-> DOMAIN records[1] \ {C_contract_symbol, C_created_at},
     params |-> records]

\* table_name = "put_options" if option_type == "puts" else "call_options"
OptionTable(option_type) == IF option_type = "puts" THEN "put_options" ELSE "call_options"

SaveOptionRecords(db, sch, table_name, db_columns, records, fault) ==
    Result(ExecuteAndCommit(db, sch, OptionStatement(table_name, records), fault),
           db_columns, TRUE, records, SchemaCheckConnection(sch, table_name, fault))

BuildOptionRecords(options_data, all_fields, db_columns, ticker, expiration_date, current_date) ==
    [i \in 1..Len(options_data.rows) |->
        OptionRecord(options_data.rows[i], all_fields, db_columns, ticker,
                     expiration_date, current_date)]

SaveOptionsWithColumns(db, sch, options_data, table_name, db_columns, ticker, expiration_date, current_date, fault) ==
    SaveOptionRecords(db, sch, table_name, db_columns,
        BuildOptionRecords(options_data, AllFields(options_data, db_columns), db_columns,
                           ticker, expiration_date, current_date),
        fault)

SaveOptionsDataUpsert(db, sch, options_data, ticker, option_type, expiration_date, current_date, fault) ==
    IF options_data.isNone \/ Empty(options_data)
    THEN [Raised(db, "none", "no options data") EXCEPT !.outcome = "returned"]
    ELSE SaveOptionsWithColumns(db, sch, options_data, OptionTable(option_type),
            GetTableColumns(sch, OptionTable(option_type), fault), ticker,
            expiration_date, current_date, fault)

(* ------------------------- state and actions -------------------------- *)

\* The column sets a table can have; {} is "the table does not exist".
SchemaChoices(t) ==
    CASE t = "stock_prices" ->
            {PriceColumns, PriceColumns \cup {C_volume}, PriceColumns \ {C_open}, {}}
      [] t = "companies" -> {CompanyColumns, CompanyColumns \ {C_long_name}, {}}
      [] t = "no_such_table" -> {{}}
      [] OTHER -> {OptionColumns, OptionColumns \ {C_volume}, {}}

BaseSchema ==
    [t \in Tables |->
        CASE t = "stock_prices" -> PriceColumns
          [] t = "companies" -> CompanyColumns
          [] t = "no_such_table" -> {}
          [] OTHER -> OptionColumns]

TablesOf(g) ==
    CASE g = "companies" -> {"companies"}
      [] g = "prices" -> {"stock_prices"}
      [] g = "puts" -> {"put_options"}
      [] g = "calls" -> {"call_options"}
      [] OTHER -> {}

\* The expiration date of the option chain, and the dates of the save calls.
ExpirationDate == "2026-01-16"
Today == "2026-01-05"
Tomorrow == "2026-01-06"

NoLog == [k \in {} |-> None]

\* What a call leaves to observe: its result without the storage state.
Call(op, t, r) ==
    [op |-> op, table |-> t, input |-> <<>>, outcome |-> r.outcome, error |-> r.error,
     detail |-> r.detail, dbColumns |-> r.dbColumns, described |-> r.described,
     records |-> r.records, submitted |-> r.submitted, executed |-> r.executed,
     storage |-> r.storage, conns |-> r.conns, missing |-> r.missing, arg |-> "none"]

Idle ==
    [op |-> "none", tickers |-> <<>>, done |-> 0, status |-> "idle", dry_run |-> FALSE,
     database_url |-> TRUE, error |-> "none", option_type |-> None, date |-> None,
     result |-> [t \in {} |-> None]]

InitIn(g) ==
    /\ group = g
    /\ schema = BaseSchema
    /\ tables = [t \in Tables |-> {}]
    /\ priceLog = NoLog
    /\ last = [op |-> "init"]
    /\ run = Idle
    /\ today = Today

Groups == {"companies", "prices", "puts", "calls"}

Init == \E g \in Groups : InitIn(g)

PriceKey(row, ticker) == <<RowDate(row.index), ticker>>

\* The cells of the last row of the frame with key k.
LastCells(price_data, ticker, k) ==
    LET n == CHOOSE i \in 1..Len(price_data.rows) :
                /\ PriceKey(price_data.rows[i], ticker) = k
                /\ \A j \in (i + 1)..Len(price_data.rows) :
                      PriceKey(price_data.rows[j], ticker) # k
    IN price_data.rows[n].cells

Overwrites(price_data, ticker, keys) ==
    \E k \in keys \cap DOMAIN priceLog :
        priceLog[k].Close # LastCells(price_data, ticker, k).Close

PriceDone(r, price_data, ticker, keys) ==
    /\ tables' = r.db
    /\ priceLog' =
          IF r.outcome = "returned"
          THEN [k \in DOMAIN priceLog \cup keys |->
                  IF k \in keys THEN LastCells(price_data, ticker, k) ELSE priceLog[k]]
          ELSE priceLog
    /\ last' = [Call("save_price_data_upsert", "stock_prices", r) EXCEPT
                  !.input = price_data, !.arg = ticker,
                  !.detail = IF r.outcome = "returned"
                                /\ Overwrites(price_data, ticker, keys)
                             THEN "overwrote" ELSE r.detail]

SavePrice(price_data, ticker, fault) ==
    /\ group = "prices"
    /\ PriceDone(SavePriceDataUpsert(tables, schema, price_data, ticker, fault),
                 price_data, ticker,
                 {PriceKey(price_data.rows[i], ticker) : i \in 1..Len(price_data.rows)})
    /\ UNCHANGED <<today, group, run, schema>>

\* No client is in use: none was used yet, or the last one was closed.
Closed == last.op \in {"init", "close"}

\* db_client.close() in the finally clause that follows a call.
Close ==
    /\ last.op \in {"save_company_data_upsert", "save_price_data_upsert",
                    "save_options_data_upsert", "get_table_columns"}
    /\ last' = [op |-> "close"]
    /\ UNCHANGED <<today, group, run, schema, tables, priceLog>>

\* The schema is changed from outside the program between two calls: a table
\* is dropped or created, or gains or loses a column.
Migrate(t, cols) ==
    /\ t \in TablesOf(group)
    /\ cols \in SchemaChoices(t)
    /\ cols # schema[t]
    /\ schema' = [schema EXCEPT ![t] = cols]
    /\ tables' = [tables EXCEPT ![t] =
                    {[c \in cols |-> IF c \in DOMAIN r THEN r[c] ELSE None] : r \in @}]
    /\ priceLog' = IF t = "stock_prices" /\ cols = {} THEN NoLog ELSE priceLog
    /\ UNCHANGED <<today, group, run, last>>

Done(op, t, r, input, arg) ==
    /\ tables' = r.db
    /\ last' = [Call(op, t, r) EXCEPT !.input = input, !.arg = arg]

SaveCompany(company_data, fault) ==
    /\ group = "companies"
    /\ Done("save_company_data_upsert", "companies",
            SaveCompanyDataUpsert(tables, schema, company_data, "companies", fault),
            company_data, "companies")
    /\ UNCHANGED <<today, group, run, schema, priceLog>>

\* The option_type arguments save_options_data_upsert is called with: the
\* two classes, and a string that is neither.
OptionTypes(g) == IF g = "puts" THEN {"puts"} ELSE {"calls", "weekly"}

SaveOptions(options_data, ticker, option_type, fault) ==
    /\ group \in {"puts", "calls"}
    /\ option_type \in OptionTypes(group)
    /\ Done("save_options_data_upsert", OptionTable(option_type),
            SaveOptionsDataUpsert(tables, schema, options_data, ticker, option_type,
                                  ExpirationDate, today, fault),
            options_data, option_type)
    /\ UNCHANGED <<today, group, run, schema, priceLog>>

GetColumns(t, fault) ==
    /\ t \in TablesOf(group) \cup {"no_such_table"}
    /\ last' = [op |-> "get_table_columns", table |-> t, outcome |-> "returned",
                fault |-> fault.kind, columns |-> GetTableColumns(schema, t, fault),
                conns |-> SchemaCheckConnection(schema, t, fault)]
    /\ UNCHANGED <<today, group, run, schema, tables, priceLog>>

\* The date changes between two calls of an options command.
Midnight ==
    /\ group \in {"puts", "calls"}
    /\ Closed
    /\ today = Today
    /\ today' = Tomorrow
    /\ UNCHANGED <<group, run, schema, tables, priceLog, last>>

PriceCalls ==
    /\ group = "prices"
    /\ Closed
    /\ \E price_data \in PriceFrames, ticker \in Tickers :
        \E fault \in WriteFaults(Len(price_data.rows)) : SavePrice(price_data, ticker, fault)

SchemaChanges == Closed /\ \E t \in TablesOf(group) : \E cols \in SchemaChoices(t) : Migrate(t, cols)

CompanyCalls ==
    /\ group = "companies"
    /\ Closed
    /\ \E company_data \in CompanyRecords(Len(CompanyKeys)) :
        \E fault \in Faults(1) : SaveCompany(company_data, fault)

OptionCalls ==
    /\ group \in {"puts", "calls"}
    /\ Closed
    /\ \E options_data \in OptionFrames, ticker \in Tickers, option_type \in OptionTypes(group) :
        \E fault \in Faults(Len(options_data.rows)) :
            SaveOptions(options_data, ticker, option_type, fault)

SchemaChecks ==
    Closed /\ \E t \in TablesOf(group) \cup {"no_such_table"}, fault \in {NoFault, [kind |-> "describe", row |-> 0]} :
        GetColumns(t, fault)

(* ---------------------------- services.py ----------------------------- *)
\* The tickers the provider has no data for.
InvalidTickers == {"ZZZZ"}

RunTickers == {"AAA", "ZZZZ"}

\* What the provider returns for a valid ticker: nothing, a record that can
\* be stored, a record with nothing to store.
RunCompanyData ==
    {<<>>, <<<<K_symbol, "x">>, <<K_longName, "x">>>>, <<<<K_symbol, None>>>>}

RunPriceFrames ==
    {NoFrame} \cup {[isNone |-> FALSE, columns |-> RequiredPriceColumns, rows |-> <<r>>] :
                        r \in PriceRows(RequiredPriceColumns)}

RunFaults == {NoFault, [kind |-> "execute", row |-> 1]}

\* The error kinds the validation errors of MySQLClient are raised as:
\* raise ValueError(...) for empty input, missing columns, nothing to insert.
ValidationErrorKinds == {"ValueError"}

\* MySQLClient(): raise ValueError("DATABASE_URL not found in environment
\* variables") when the connection string is missing.
NewClientError(database_url) == IF database_url THEN "none" ELSE "ValueError"

\* How the processing of one ticker ends: it returns, or an exception leaves
\* it; the tables after it; the save call it made, if any; why it raised;
\* the value it returns; the storage clients it constructed.
Ends(raised, error, db, saved, r) ==
    [raised |-> raised, error |-> error, db |-> db, saved |-> saved, result |-> r,
     cause |-> "none", value |-> None, opened |-> 0]

NoCall(db) == [Raised(db, "none", "no save") EXCEPT !.outcome = "none"]

\* db_client = MySQLClient(): ValueError without DATABASE_URL
\* try: db_client.save_..._upsert(...)
\* except Exception as e: logger.error(...)
\* finally: db_client.close()
SaveToDb(db, database_url, r) ==
    IF NewClientError(database_url) # "none"
    THEN [Ends(TRUE, NewClientError(database_url), db, FALSE, NoCall(db)) EXCEPT
            !.cause = "no connection string"]
    ELSE [Ends(FALSE, "none", r.db, TRUE, r) EXCEPT !.opened = 1]

\* YahooFinanceClient(ticker) raises ValueError for a ticker without data;
\* no data: return; dry_run: return the data; else _save_company_to_db.
AddCompanyToDb(db, sch, ticker, dry_run, database_url, company_data, fault) ==
    IF ticker \in InvalidTickers
    THEN [Ends(TRUE, "ValueError", db, FALSE, NoCall(db)) EXCEPT !.cause = "invalid ticker"]
    ELSE IF company_data = <<>> THEN Ends(FALSE, "none", db, FALSE, NoCall(db))
    ELSE IF dry_run
    THEN [Ends(FALSE, "none", db, FALSE, NoCall(db)) EXCEPT !.value = company_data]
    ELSE SaveToDb(db, database_url,
                  SaveCompanyDataUpsert(db, sch, company_data, "companies", fault))

\* YahooFinanceClient(ticker); get_historical_data; dry_run: return the
\* table; else _save_price_history.
AddStockPriceHistoryToDb(db, sch, ticker, dry_run, database_url, price_data, fault) ==
    IF ticker \in InvalidTickers
    THEN [Ends(TRUE, "ValueError", db, FALSE, NoCall(db)) EXCEPT !.cause = "invalid ticker"]
    ELSE IF dry_run
    THEN [Ends(FALSE, "none", db, FALSE, NoCall(db)) EXCEPT !.value = price_data]
    ELSE SaveToDb(db, database_url, SavePriceDataUpsert(db, sch, price_data, ticker, fault))

\* yf_client.get_option_dates(): the expiration dates of the ticker's chain.
GetOptionDates == {<<>>, <<ExpirationDate>>}

\* yf_client.get_options(date_str, opt_type): a table, None, or an exception.
RunOptionFrames ==
    {NoFrame,
     [isNone |-> FALSE, columns |-> OptionFrameColumns, rows |-> <<>>],
     [isNone |-> FALSE, columns |-> OptionFrameColumns,
      rows |-> <<(K_contractSymbol :> "C1") @@ (K_volume :> "7.0")>>]}

GetOptions ==
    {[data |-> d, raises |-> FALSE] : d \in RunOptionFrames}
    \cup {[data |-> NoFrame, raises |-> TRUE]}

\* The date and option_type arguments of a scrape.
ScrapeDates == {None, ExpirationDate, "2027-01-15"}
ScrapeTypes == {None, "puts", "calls", "weekly"}

\* The body of the try of one option class, saving whatever dry_run is.
ScrapeTypeAlwaysSave(acc, sch, ticker, opt_type, date_str, dry_run, database_url, x, fault, current_date) ==
    IF x.raises \/ x.data.isNone
    THEN [acc EXCEPT !.value[date_str] = (opt_type :> NoFrame) @@ @]
    ELSE IF Empty(x.data)
    THEN [acc EXCEPT !.value[date_str] = (opt_type :> x.data) @@ @]
    ELSE IF NewClientError(database_url) # "none"
    THEN [acc EXCEPT !.value[date_str] = (opt_type :> NoFrame) @@ @]
    ELSE [acc EXCEPT !.value[date_str] = (opt_type :> x.data) @@ @, !.opened = @ + 1,
                     !.saved = TRUE,
                     !.db = SaveOptionsDataUpsert(acc.db, sch, x.data, ticker, opt_type,
                                                  date_str, current_date, fault).db]

\* The body of the try of one option class: get_options; len(options_data)
\* (TypeError for None); _save_options_to_db unless dry_run, None or empty:
\* MySQLClient() and, inside its own try, save_options_data_upsert.  Any
\* exception here is caught and the class's entry of the result is None
\* (NoFrame).
ScrapeType(acc, sch, ticker, opt_type, date_str, dry_run, database_url, x, fault, current_date) ==
    IF x.raises \/ x.data.isNone
    THEN [acc EXCEPT !.value[date_str] = (opt_type :> NoFrame) @@ @]
    ELSE IF dry_run \/ Empty(x.data)
    THEN [acc EXCEPT !.value[date_str] = (opt_type :> x.data) @@ @]
    ELSE IF NewClientError(database_url) # "none"
    THEN [acc EXCEPT !.value[date_str] = (opt_type :> NoFrame) @@ @]
    ELSE [acc EXCEPT !.value[date_str] = (opt_type :> x.data) @@ @, !.opened = @ + 1,
                     !.saved = TRUE,
                     !.db = SaveOptionsDataUpsert(acc.db, sch, x.data, ticker, opt_type,
                                                  date_str, current_date, fault).db]

\* for opt_type in option_types
RECURSIVE ScrapeTypesOfDate(_, _, _, _, _, _, _, _, _, _)
ScrapeTypesOfDate(acc, sch, ticker, types, date_str, dry_run, database_url, xs, fault, current_date) ==
    IF types = <<>> THEN acc
    ELSE ScrapeTypesOfDate(
            ScrapeType(acc, sch, ticker, Head(types), date_str, dry_run, database_url,
                       Head(xs), fault, current_date),
            sch, ticker, Tail(types), date_str, dry_run, database_url, Tail(xs), fault,
            current_date)

NoResult == [t \in {} |-> None]

\* YahooFinanceClient(ticker); option_dates = yf_client.get_option_dates();
\* dates_to_process = [target_date] if target_date else option_dates;
\* ValueError for an option_type that is not "puts", "calls" or None; then,
\* for every date to process that the chain has, every option class.  The
\* chain has at most one date here.
ScrapeOptionsForTicker(db, sch, ticker, option_type, date, dry_run, database_url, option_dates, xs, fault, current_date) ==
    IF ticker \in InvalidTickers
    THEN [Ends(TRUE, "ValueError", db, FALSE, NoCall(db)) EXCEPT !.cause = "invalid ticker"]
    ELSE IF option_type \notin {None, "puts", "calls"}
    THEN [Ends(TRUE, "ValueError", db, FALSE, NoCall(db)) EXCEPT
            !.cause = "invalid option type"]
    ELSE IF option_dates = <<>> \/ (date # None /\ date # Head(option_dates))
    THEN [Ends(FALSE, "none", db, FALSE, NoCall(db)) EXCEPT !.value = NoResult]
    ELSE ScrapeTypesOfDate(
            [Ends(FALSE, "none", db, FALSE, NoCall(db)) EXCEPT
                !.value = (Head(option_dates) :> NoResult)],
            sch, ticker,
            IF option_type = None THEN <<"puts", "calls">> ELSE <<option_type>>,
            Head(option_dates), dry_run, database_url, xs, fault, current_date)

RunOps(g) ==
    CASE g = "companies" -> {"add_companies_to_db"}
      [] g = "prices" -> {"add_stock_prices_history_to_db"}
      [] g = "options" -> {"scrape_options_for_tickers"}
      [] OTHER -> {}

\* for ticker in tickers: with no ticker the loop body never runs.
StartRun(op, tickers, dry_run, database_url, option_type, date) ==
    /\ run.status # "running"
    /\ op \in RunOps(group)
    /\ op # "scrape_options_for_tickers" => (option_type = None /\ date = None)
    /\ run' = [op |-> op, tickers |-> tickers, done |-> 0,
               status |-> IF tickers = <<>> THEN "returned" ELSE "running",
               dry_run |-> dry_run, database_url |-> database_url, error |-> "none",
               option_type |-> option_type, date |-> date, result |-> NoResult]
    /\ last' = [op |-> op]
    /\ UNCHANGED <<today, group, schema, tables, priceLog>>

\* One pass of the loop over the tickers: an exception that leaves the
\* single-ticker function leaves the loop and the operation; with dry_run
\* the value returned is kept under the ticker.
TickerDone(e, op, fetched) ==
    /\ tables' = e.db
    /\ run' = [run EXCEPT !.done = @ + 1,
                          !.status = IF e.raised THEN "raised"
                                     ELSE IF run.done + 1 = Len(run.tickers)
                                     THEN "returned" ELSE "running",
                          !.error = e.error,
                          !.result = IF run.dry_run /\ ~e.raised
                                     THEN (run.tickers[run.done + 1] :> e.value) @@ @
                                     ELSE @]
    /\ last' = [op |-> op, outcome |-> IF e.raised THEN "raised" ELSE "returned",
                error |-> e.error, cause |-> e.cause, saved |-> e.saved,
                opened |-> e.opened, value |-> e.value, fetched |-> fetched,
                call |-> [outcome |-> e.result.outcome, error |-> e.result.error,
                          detail |-> e.result.detail]]

StepCompany(company_data, fault) ==
    /\ run.status = "running"
    /\ run.op = "add_companies_to_db"
    /\ TickerDone(AddCompanyToDb(tables, schema, run.tickers[run.done + 1], run.dry_run,
                                 run.database_url, company_data, fault),
                  "add_company_to_db", company_data)
    /\ UNCHANGED <<today, group, schema, priceLog>>

StepPrice(price_data, fault) ==
    /\ run.status = "running"
    /\ run.op = "add_stock_prices_history_to_db"
    /\ TickerDone(AddStockPriceHistoryToDb(tables, schema, run.tickers[run.done + 1],
                                           run.dry_run, run.database_url, price_data,
                                           fault),
                  "add_stock_price_history_to_db", price_data)
    /\ UNCHANGED <<today, group, schema, priceLog>>

\* What get_options handed over for the classes asked for, in the order of
\* the calls: nothing (NoFrame) when it raised.
Fetched(option_type, xs) ==
    IF option_type = None
    THEN ("puts" :> (IF xs[1].raises THEN NoFrame ELSE xs[1].data))
         @@ ("calls" :> (IF xs[2].raises THEN NoFrame ELSE xs[2].data))
    ELSE (option_type :> (IF xs[1].raises THEN NoFrame ELSE xs[1].data))

StepOptions(option_dates, xs, fault) ==
    /\ run.status = "running"
    /\ run.op = "scrape_options_for_tickers"
    /\ TickerDone(ScrapeOptionsForTicker(tables, schema, run.tickers[run.done + 1],
                                         run.option_type, run.date, run.dry_run,
                                         run.database_url, option_dates, xs, fault, today),
                  "scrape_options_for_ticker",
                  [dates |-> option_dates, data |-> Fetched(run.option_type, xs)])
    /\ UNCHANGED <<today, group, schema, priceLog>>

Runs ==
    \E op \in RunOps(group), tickers \in SeqsUpTo(RunTickers, MaxTickers),
       dry_run \in BOOLEAN, database_url \in BOOLEAN,
       option_type \in ScrapeTypes, date \in ScrapeDates :
        StartRun(op, tickers, dry_run, database_url, option_type, date)

CompanySteps ==
    \E company_data \in RunCompanyData, fault \in RunFaults : StepCompany(company_data, fault)

PriceSteps ==
    \E price_data \in RunPriceFrames, fault \in RunFaults : StepPrice(price_data, fault)

OptionSteps ==
    \E option_dates \in GetOptionDates, x1 \in GetOptions, x2 \in GetOptions,
       fault \in RunFaults :
        StepOptions(option_dates, <<x1, x2>>, fault)

NextRun == Runs \/ CompanySteps \/ PriceSteps \/ OptionSteps

\* The multi-ticker operations of services.py, one after the other.
SpecRun == (\E g \in {"companies", "prices", "options"} : InitIn(g)) /\ [][NextRun]_vars

\* The field mapper alone, on names and mapping tables over three characters.
MapperNames == SeqsUpTo({"A", "B", "C"}, MaxLen)

MapperPairs ==
    {<<<<"A">>, <<"B">>>>, <<<<"B">>, <<"C">>>>, <<<<"C">>, <<"A">>>>,
     <<<<"A", "B">>, <<"C">>>>}

\* Ordered tables of at most two pairs with distinct sources (a dict's items).
MapperTables ==
    {<<>>} \cup {<<p>> : p \in MapperPairs}
    \cup {t \in {<<p, q>> : p \in MapperPairs, q \in MapperPairs} : t[1][1] # t[2][1]}

ApplyMapper(name, mapping) ==
    /\ group = "mapper"
    /\ last' = [op |-> "field_mapper", name |-> name, mapping |-> mapping,
                out |-> MapField(name, mapping)]
    /\ UNCHANGED <<today, group, run, schema, tables, priceLog>>

MapperCalls == \E name \in MapperNames, mapping \in MapperTables : ApplyMapper(name, mapping)

SpecMapper == InitIn("mapper") /\ [][MapperCalls]_vars

Next ==
    CompanyCalls \/ PriceCalls \/ OptionCalls \/ SchemaChecks \/ SchemaChanges \/ Close
    \/ Midnight

Spec == Init /\ [][Next]_vars

\* Price saves alone, on the schema the table was created with.
SpecPrice == InitIn("prices") /\ [][PriceCalls \/ Close]_vars

(* ------------------------------- claims ------------------------------- *)
Stored(cell) == IF cell = NaN THEN None ELSE cell

RowsWithKey(k) ==
    {r \in tables["stock_prices"] : r[C_date] = k[1] /\ r[C_ticker] = k[2]}

\* C1: after any sequence of save_price_data_upsert calls, stock_prices holds
\* exactly one row for every (date, ticker) key a returned call carried and
\* no other row, and the row's open, high, low and close are those of the
\* most recent such call.
C1_OneRowPerKeyLatestValues ==
    /\ Cardinality(tables["stock_prices"]) = Cardinality(DOMAIN priceLog)
    /\ \A k \in DOMAIN priceLog :
          /\ Cardinality(RowsWithKey(k)) = 1
          /\ \A r \in RowsWithKey(k) :
                /\ r[C_open] = Stored(priceLog[k].Open)
                /\ r[C_high] = Stored(priceLog[k].High)
                /\ r[C_low] = Stored(priceLog[k].Low)
                /\ r[C_close] = Stored(priceLog[k].Close)

\* A two-row batch was saved over rows of the same keys, one of them with a
\* different close, and the table holds two rows.
C1_Witness ==
    /\ last.op = "save_price_data_upsert"
    /\ last.outcome = "returned"
    /\ last.detail = "overwrote"
    /\ Len(last.records) = 2
    /\ last.records[1][C_date] # last.records[2][C_date]
    /\ Cardinality(tables["stock_prices"]) = 2

IsCompanyCall == last.op = "save_company_data_upsert"
IsPriceCall == last.op = "save_price_data_upsert"
IsOptionCall == last.op = "save_options_data_upsert"

\* The keys of the records and statements of the last call.
SubmittedKeys ==
    UNION {DOMAIN last.records[i] : i \in 1..Len(last.records)}
    \cup UNION {last.submitted[i].columns : i \in 1..Len(last.submitted)}

\* C2: every key of the record save_company_data_upsert builds and submits is
\* in the column set get_table_columns returned in that call.
C2_CompanyKeysInReturnedColumns ==
    IsCompanyCall => SubmittedKeys \subseteq last.dbColumns

\* A record was stored whose zip field, a scalar, has no column in the table.
C2_Witness ==
    /\ IsCompanyCall
    /\ last.outcome = "returned"
    /\ \E i \in 1..Len(last.input) :
          /\ last.input[i][1] = K_zip
          /\ last.input[i][2] = "x"
    /\ last.records # <<>>
    /\ K_zip \notin last.dbColumns

NullOrComposite(items) ==
    \A i \in 1..Len(items) : items[i][2] = None \/ IsComposite(items[i][2])

\* C3: a company record whose values are all None or composite makes
\* save_company_data_upsert raise ValueError, with no statement submitted
\* and the tables as they were.
C3_NothingPersistableRaises ==
    [][(last'.op = "save_company_data_upsert" /\ NullOrComposite(last'.input))
        => /\ last'.outcome = "raised"
           /\ last'.error = "ValueError"
           /\ last'.submitted = <<>>
           /\ tables' = tables]_vars

\* A record of a None symbol and a list was refused over a table with a row.
C3_Witness ==
    /\ IsCompanyCall
    /\ Len(last.input) = 2
    /\ last.input[1][2] = None
    /\ last.input[2][2] = "list"
    /\ last.error = "ValueError"
    /\ last.described
    /\ tables["companies"] # {}

\* C4: the records save_options_data_upsert builds for a batch have one key
\* set, and a schema-valid field some row has a value for is a key of every
\* record, None in the record of a row without a value for it.
C4_OneKeySetNullForMissing ==
    (IsOptionCall /\ last.records # <<>>) =>
        /\ \A i, j \in 1..Len(last.records) :
              DOMAIN last.records[i] = DOMAIN last.records[j]
        /\ \A k \in last.input.columns, i, j \in 1..Len(last.records) :
              (NotNa(last.input.rows[i][k]) /\ OptionKey(k) \in last.dbColumns) =>
                  /\ OptionKey(k) \in DOMAIN last.records[j]
                  /\ ~NotNa(last.input.rows[j][k]) => last.records[j][OptionKey(k)] = None

\* The second row has a volume and the first has none: both records have the
\* key, the first one with None.
C4_Witness ==
    /\ IsOptionCall
    /\ Len(last.records) = 2
    /\ last.input.rows[1][K_volume] = NaN
    /\ last.input.rows[2][K_volume] = "7.0"
    /\ C_volume \in DOMAIN last.records[1]
    /\ last.records[1][C_volume] = None
    /\ last.records[2][C_volume] = "7"

\* str.__contains__
RECURSIVE Contains(_, _)
Contains(s, sub) ==
    \/ StartsWith(s, sub)
    \/ s # <<>> /\ Contains(Tail(s), sub)

ChainTable == <<<<<<"A">>, <<"B">>>>, <<<<"B">>, <<"C">>>>>>

\* C5: the field mapper applies the pairs of the table in order, each to the
\* output of the one before: with [("A","B"), ("B","C")], "A" maps to "C"; a
\* name that contains no source substring is returned unchanged.
C5_MapperChainsInTableOrder ==
    last.op = "field_mapper" =>
        LET m == last.mapping
        IN /\ Len(m) = 1 => last.out = Replace(last.name, m[1][1], m[1][2])
           /\ Len(m) = 2 =>
                last.out = Replace(Replace(last.name, m[1][1], m[1][2]), m[2][1], m[2][2])
           /\ (m = ChainTable /\ last.name = <<"A">>) => last.out = <<"C">>
           /\ (\A i \in 1..Len(m) : ~Contains(last.name, m[i][1])) => last.out = last.name

C5_Witness ==
    /\ last.op = "field_mapper"
    /\ last.mapping = ChainTable
    /\ last.name = <<"A">>
    /\ last.out = <<"C">>

\* C6: get_table_columns returns and never raises; its result is the empty
\* set on a storage error or a table that does not exist, and the table's
\* live column set otherwise, whatever an earlier call returned.
C6_ColumnsLiveOrEmpty ==
    last.op = "get_table_columns" =>
        /\ last.outcome = "returned"
        /\ last.columns = IF last.fault = "describe" \/ schema[last.table] = {}
                          THEN {} ELSE schema[last.table]

\* stock_prices gained a column after it was created and the call returns it.
C6_Witness ==
    /\ last.op = "get_table_columns"
    /\ last.table = "stock_prices"
    /\ C_volume \in last.columns

\* C7: in a multi-ticker operation a failure on one ticker is caught and
\* logged, and every ticker after it in the list is still processed: the
\* operation ends only with every ticker processed.
C7_EveryTickerProcessed ==
    run.status \in {"returned", "raised"} => run.done = Len(run.tickers)

IsSaveCall == IsCompanyCall \/ IsPriceCall \/ IsOptionCall

\* Record i of the batch is the last one of its key.
LastOfKey(records, t, i) ==
    \A j \in (i + 1)..Len(records) : ~SameKey(t, records[i], records[j])

InTable(rows, rec) == \E r \in rows : \A c \in DOMAIN rec : r[c] = rec[c]

\* C8: an upsert call has no partial success: when it raises, the tables are
\* as they were before the call; when it returns, every record of the call
\* is in the table (a record whose key a later record of the same batch
\* repeats, through that later record).
C8_AllOrNothing ==
    [][(last'.op \in {"save_company_data_upsert", "save_price_data_upsert",
                      "save_options_data_upsert"})
        => /\ last'.outcome = "raised" => tables' = tables
           /\ last'.outcome = "returned" =>
                \A i \in 1..Len(last'.records) :
                    LastOfKey(last'.records, last'.table, i) =>
                        InTable(tables'[last'.table], last'.records[i])]_vars

\* The execute of a two-record batch failed at its second record.
C8_Witness ==
    /\ IsSaveCall
    /\ last.outcome = "raised"
    /\ Len(last.records) = 2
    /\ last.executed = 1
    /\ last.submitted # <<>>

\* C9: no save operation submits a record whose natural-key column is null or
\* absent.
C9_NoNullKeySubmitted ==
    IsSaveCall =>
        \A n \in 1..Len(last.submitted) :
            \A i \in 1..Len(last.submitted[n].params) :
                \A k \in KeyColumns(last.submitted[n].table) :
                    /\ k \in DOMAIN last.submitted[n].params[i]
                    /\ last.submitted[n].params[i][k] # None

C12_StorageErrorReRaised ==
    (IsSaveCall /\ last.storage # "none") =>
        /\ last.outcome = "raised"
        /\ last.error = last.storage

\* The commit of a two-record batch failed after both records were executed.
C12_Witness ==
    /\ IsSaveCall
    /\ Len(last.records) = 2
    /\ last.executed = 2
    /\ last.storage = "OperationalError"
    /\ last.outcome = "raised"

\* The connections of a call alternate acquire and release and end released.
Alternates(conns) ==
    /\ Len(conns) % 2 = 0
    /\ \A i \in 1..Len(conns) : conns[i] = IF i % 2 = 1 THEN "acquire" ELSE "release"

\* C17: at most one storage connection is open at a time; a connection serves
\* one logical operation (the schema check or the upsert) and is released
\* when it ends, by success or by an exception; the schema check's
\* connection is released before the upsert's is acquired, and none is open
\* after the call.
C17_OneScopedConnectionPerOperation ==
    /\ IsSaveCall =>
          /\ Alternates(last.conns)
          /\ Len(last.conns) \div 2 <= (IF last.described THEN 1 ELSE 0) + Len(last.submitted)
          /\ Len(last.submitted) <= 1
    /\ last.op = "get_table_columns" =>
          /\ Alternates(last.conns)
          /\ Len(last.conns) = 2

\* A schema check and then an upsert whose execute failed: two connections,
\* one after the other.
C17_Witness ==
    /\ IsOptionCall
    /\ last.described
    /\ last.outcome = "raised"
    /\ last.storage # "none"
    /\ last.executed = 1
    /\ last.conns = <<"acquire", "release", "acquire", "release">>

PriceCellColumns ==
    {<<"Open", C_open>>, <<"High", C_high>>, <<"Low", C_low>>, <<"Close", C_close>>}

\* C18: for a non-empty price table with the four Open/High/Low/Close
\* columns, save_price_data_upsert builds one record per row with the six
\* keys date, ticker, open, high, low, close, the caller's ticker, the date
\* of the row's index, and None for a NaN cell (never zero); an empty table
\* or one lacking a required column raises ValueError, naming the missing
\* columns, before any storage access.
C18_PriceRecordsFromRows ==
    IsPriceCall =>
        IF last.input.isNone \/ Empty(last.input)
        THEN /\ last.outcome = "raised" /\ last.error = "ValueError"
             /\ last.submitted = <<>> /\ last.conns = <<>>
        ELSE IF RequiredPriceColumns \ last.input.columns # {}
        THEN /\ last.outcome = "raised" /\ last.error = "ValueError"
             /\ last.missing = RequiredPriceColumns \ last.input.columns
             /\ last.submitted = <<>> /\ last.conns = <<>>
        ELSE /\ Len(last.records) = Len(last.input.rows)
             /\ \A i \in 1..Len(last.records) :
                   /\ DOMAIN last.records[i] = PriceColumns
                   /\ last.records[i][C_ticker] = last.arg
                   /\ last.records[i][C_date] = last.input.rows[i].index.day
                   /\ \A p \in PriceCellColumns :
                         last.records[i][p[2]] =
                            IF last.input.rows[i].cells[p[1]] = NaN THEN None
                            ELSE last.input.rows[i].cells[p[1]]

\* Two records, the second with None for its NaN open.
C18_Witness ==
    /\ IsPriceCall
    /\ Len(last.records) = 2
    /\ last.input.rows[2].cells["Open"] = NaN
    /\ last.records[2][C_open] = None
    /\ last.records[1][C_open] = "1.0"

\* C14: when get_table_columns returns the empty set, a save call treats it
\* as "nothing is persistable": it submits no statement to storage, a
\* non-empty options batch included.
C14_EmptySchemaSubmitsNothing ==
    ((IsCompanyCall \/ IsOptionCall) /\ last.described /\ last.dbColumns = {}) =>
        last.submitted = <<>>

\* C15: an option_type other than "puts" and "calls" is a validation error
\* with no write: save_options_data_upsert never writes a row to put_options
\* or call_options for it.
C15_InvalidOptionTypeWritesNothing ==
    (IsOptionCall /\ last.arg \notin {"puts", "calls"}) =>
        ~(last.outcome = "returned" /\ last.executed > 0)

OptionRowsOf(rows, contract_symbol, created_at) ==
    {r \in rows : r[C_contract_symbol] = contract_symbol /\ r[C_created_at] = created_at}

\* C13: option rows are keyed by (contract_symbol, created_at), created_at
\* being the date of the save call: a save that returns leaves, for every
\* contract of the batch, exactly one row of that contract and today's date,
\* carrying the call's values, and leaves the rows of every other date as
\* they were.
C13_DailySnapshotPerContract ==
    [][(last'.op = "save_options_data_upsert" /\ last'.outcome = "returned"
            /\ last'.records # <<>>)
        => /\ \A r \in tables[last'.table] :
                 r[C_created_at] # today => r \in tables'[last'.table]
           /\ \A r \in tables'[last'.table] :
                 r[C_created_at] # today => r \in tables[last'.table]
           /\ \A i \in 1..Len(last'.records) :
                 LastOfKey(last'.records, last'.table, i) =>
                    LET hit == OptionRowsOf(tables'[last'.table],
                                            last'.records[i][C_contract_symbol], today)
                    IN /\ Cardinality(hit) = 1
                       /\ \A r \in hit : \A c \in DOMAIN last'.records[i] :
                             r[c] = last'.records[i][c]]_vars

\* The contract saved on the first day with volume 7 and on the second with
\* volume 9: two rows, the first day's unchanged.
C13_Witness ==
    /\ IsOptionCall
    /\ last.outcome = "returned"
    /\ today = Tomorrow
    /\ Cardinality(tables[last.table]) = 2
    /\ \E r \in OptionRowsOf(tables[last.table], "C1", Today) : r[C_volume] = "7"
    /\ \E r \in OptionRowsOf(tables[last.table], "C1", Tomorrow) : r[C_volume] = "9"

\* The columns a company record has a persistable value for: the mapped keys
\* of its fields that are neither None nor composite.
Persistable(company_data) ==
    {MapField(company_data[i][1], COMPANY_INFO_COLUMN_MAPPING_DICT) :
        i \in {j \in 1..Len(company_data) :
                 company_data[j][2] # None /\ ~IsComposite(company_data[j][2])}}

\* C19: a company upsert that returns changes, in the row of its symbol, only
\* the columns the new record has a persistable value for: a column whose
\* field was dropped (None, composite, or absent) keeps its stored value;
\* symbol is not in the update clause; the rows of other symbols are as
\* they were.
C19_CompanyUpsertFrame ==
    [][(last'.op = "save_company_data_upsert" /\ last'.outcome = "returned")
        => LET rec == last'.records[1]
               old == {r \in tables["companies"] : r[C_symbol] = rec[C_symbol]}
               new == {r \in tables'["companies"] : r[C_symbol] = rec[C_symbol]}
           IN /\ tables'["companies"] \ new = tables["companies"] \ old
              /\ Cardinality(new) = 1
              /\ C_symbol \notin last'.submitted[1].update
              /\ \A r \in old, r2 \in new : \A c \in DOMAIN r :
                    c \notin Persistable(last'.input) => r2[c] = r[c]]_vars

\* The symbol's row had a long name; an upsert with longName None and a
\* market cap returned, and the long name is still there.
C19_Witness ==
    /\ IsCompanyCall
    /\ last.outcome = "returned"
    /\ \E i \in 1..Len(last.input) :
          last.input[i][1] = K_longName /\ last.input[i][2] = None
    /\ C_market_cap \in DOMAIN last.records[1]
    /\ schema["companies"] = CompanyColumns
    /\ \E r \in tables["companies"] :
          /\ r[C_symbol] = last.records[1][C_symbol]
          /\ r[C_long_name] = "y"
          /\ r[C_market_cap] = "5"
    /\ \E r \in tables["companies"] : r[C_symbol] # last.records[1][C_symbol]

\* C16: a connection or configuration failure is raised as a kind distinct
\* from the kind of the validation errors: an operation that fails because
\* the connection string is missing never raises a validation error kind.
C16_ConnectionErrorKindDistinct ==
    ("cause" \in DOMAIN last /\ last.cause = "no connection string")
        => last.error \notin ValidationErrorKinds

\* The value a dry-run call hands back for what the provider gave it.
DryRunEcho(op, fetched, date) ==
    CASE op = "add_company_to_db" -> IF fetched = <<>> THEN None ELSE fetched
      [] op = "add_stock_price_history_to_db" -> fetched
      [] op = "scrape_options_for_ticker" ->
            IF fetched.dates = <<>> \/ (date # None /\ date # Head(fetched.dates))
            THEN NoResult
            ELSE (Head(fetched.dates) :> fetched.data)

\* C11: with dry_run set, a pass of an orchestration operation constructs no
\* storage client, makes no save call and leaves every table as it was; when
\* it returns, its value is the fetched data, and the multi-ticker operation
\* keeps that value under the ticker.
C11_DryRunLeavesStorageAlone ==
    [][(run.dry_run /\ run.status = "running")
        => /\ last'.opened = 0
           /\ ~last'.saved
           /\ tables' = tables
           /\ priceLog' = priceLog
           /\ last'.outcome = "returned"
                => /\ last'.value = DryRunEcho(last'.op, last'.fetched, run.date)
                   /\ run'.result[run.tickers[run.done + 1]] = last'.value]_vars

\* A dry-run scrape of two tickers has returned, and the last ticker's value
\* holds a fetched option table with rows.
C11_Witness ==
    /\ run.dry_run
    /\ run.op = "scrape_options_for_tickers"
    /\ run.status = "returned"
    /\ run.done = 2
    /\ last.outcome = "returned"
    /\ \E d \in DOMAIN last.value : \E t \in DOMAIN last.value[d] :
            ~Empty(last.value[d][t])
    /\ \A t \in DOMAIN tables : tables[t] = {}

====
